---- MODULE Spec2Model ----
(***************************************************************************)
(* The chat streaming pipeline of pensive's frontend: the ChatContainer    *)
(* component.  The React state cells (useState) of the component are the   *)
(* variables; every handler (onChange, handleSubmit, one iteration of the  *)
(* for-await loop, the end or the failure of the event stream, the         *)
(* settling of the initial history load) is one action.  A handler's       *)
(* queued state updates are applied in the order they were queued, before  *)
(* the next handler runs.  React calls an updater function once, or twice  *)
(* in a development build under StrictMode; the second call matters only   *)
(* for an updater that does more than compute its result.                  *)
(*                                                                         *)
(* JavaScript values: a string is a sequence of one-character strings; an  *)
(* optional value (a field that may be undefined) is a sequence of length  *)
(* 0 (undefined) or 1 (the value).  Message ids and timestamps are left    *)
(* out: no handler reads them.                                             *)
(***************************************************************************)
EXTENDS Integers, Sequences, FiniteSets, TLC

VARIABLES
    messages,     \* useState<ChatMessage[]>            (line 330)
    input,        \* useState("")                       (line 331)
    isLoading,    \* useState(false)                    (line 332)
    streaming,    \* useState<StreamingState>           (lines 333-338)
    finalStats,   \* useState<{...} | null>             (lines 339-343)
    historyLoad,  \* the promise of api.getChatHistory(): "pending" or "settled"
    sessions,     \* the running activations of handleSubmit's for-await loop:
                  \* for each, the events its stream has delivered so far
    lastSubmit,   \* how the latest call of handleSubmit ended for its caller
    lastClosed,   \* how the latest activation that ran its finally block ended
    turns,        \* accepted submits so far
    delivered,    \* events delivered so far, over all streams
    strictMode    \* the build runs every updater function twice (StrictMode)

vars == <<messages, input, isLoading, streaming, finalStats, historyLoad,
          sessions, lastSubmit, lastClosed, turns, delivered, strictMode>>

----------------------------------------------------------------------------
(* Bounds of the exploration. *)

MaxTurns == 2

MaxEvents == 3

----------------------------------------------------------------------------
(* JavaScript values. *)

None == <<>>

Some(v) == <<v>>

Str_Error == <<"E", "r", "r", "o", "r", ":", " ">>

Str_Unknown == <<"U", "n", "k", "n", "o", "w", "n", " ", "e", "r", "r", "o", "r">>

\* a || b on an optional string: undefined and "" are falsy
OrStr(opt, dflt) == IF opt = None \/ opt[1] = <<>> THEN dflt ELSE opt[1]

\* a || b on an optional number: undefined and 0 are falsy
OrNum(opt, dflt) == IF opt = None \/ opt[1] = 0 THEN dflt ELSE opt[1]

\* s || undefined
OrUndefined(s) == IF s = <<>> THEN None ELSE Some(s)

IsSpace(c) == c = " "

RECURSIVE TrimStart(_)
TrimStart(s) == IF s # <<>> /\ IsSpace(Head(s)) THEN TrimStart(Tail(s)) ELSE s

RECURSIVE TrimEnd(_)
TrimEnd(s) ==
    IF s # <<>> /\ IsSpace(s[Len(s)]) THEN TrimEnd(SubSeq(s, 1, Len(s) - 1)) ELSE s

\* only the leading white space removed
Trim_LeadingOnly(s) == TrimStart(s)

\* String.prototype.trim
Trim(s) == TrimEnd(TrimStart(s))

----------------------------------------------------------------------------
(* The inputs: what the user types, what the event stream delivers, how it *)
(* fails, what the history endpoint answers.                               *)

Inputs == { <<" ">>, <<" ", "h", " ">> }

ChatEvent(type, content, tps, total, dur, avg, msg) ==
    [type |-> type, content |-> content, tokens_per_second |-> tps,
     total_tokens |-> total, duration_ms |-> dur, avg_tps |-> avg, message |-> msg]

Thinking(c) == ChatEvent("thinking", c, None, None, None, None, None)

Token(c, r) == ChatEvent("token", c, r, None, None, None, None)

Done(t, d, a) == ChatEvent("done", None, None, t, d, a, None)

ErrorEvent(m) == ChatEvent("error", None, None, None, None, None, m)

ThinkingEvents == { Thinking(Some(<<"t">>)) }

TokenEvents ==
    { Token(Some(<<"a">>), None), Token(Some(<<"b">>), Some(2)), Token(None, Some(0)) }

DoneEvents == { Done(Some(2), Some(1000), Some(2)) }

ErrorEvents == { ErrorEvent(None), ErrorEvent(Some(<<"x">>)) }

Events == ThinkingEvents \cup TokenEvents \cup DoneEvents \cup ErrorEvents

\* what the for-await loop can catch: an Error with its message, or another value
Thrown == { [isError |-> TRUE, message |-> <<"x">>], [isError |-> FALSE, message |-> <<>>] }

Message(role, content, thinking) ==
    [role |-> role, content |-> content, thinking |-> thinking]

HistoryResponses == { << Message("user", <<"o">>, None) >> }

----------------------------------------------------------------------------
(* The state after the component is constructed and mounted. *)

InitialStreaming ==
    [content |-> <<>>, thinking |-> <<>>, tokensPerSecond |-> 0, isStreaming |-> FALSE]

Init ==
    /\ messages = <<>>
    /\ input = <<>>
    /\ isLoading = FALSE
    /\ streaming = InitialStreaming
    /\ finalStats = None
    /\ historyLoad = "pending"
    /\ sessions = <<>>
    /\ lastSubmit = "none"
    /\ lastClosed = None
    /\ turns = 0
    /\ delivered = 0
    /\ strictMode \in BOOLEAN

----------------------------------------------------------------------------
(* onChange of the textarea: setInput(e.target.value). *)

SetInput(v) ==
    /\ input # v
    /\ input' = v
    /\ UNCHANGED <<messages, isLoading, streaming, finalStats, historyLoad,
                   sessions, lastSubmit, lastClosed, turns, delivered,
                   strictMode>>

----------------------------------------------------------------------------
(* The initial history load (useEffect on mount). *)

LoadHistoryResolved(response) ==
    /\ historyLoad = "pending"
    /\ historyLoad' = "settled"
    /\ messages' = response
    /\ UNCHANGED <<input, isLoading, streaming, finalStats, sessions, lastSubmit,
                   lastClosed, turns, delivered, strictMode>>

LoadHistoryRejected ==
    /\ historyLoad = "pending"
    /\ historyLoad' = "settled"
    /\ UNCHANGED <<messages, input, isLoading, streaming, finalStats, sessions,
                   lastSubmit, lastClosed, turns, delivered, strictMode>>

----------------------------------------------------------------------------
(* handleSubmit, up to its first await. *)

\* the guard without its loading flag
SubmitGuard_NoLoading == Trim(input) = <<>>

\* if (!input.trim() || isLoading) return;
SubmitGuard == Trim(input) = <<>> \/ isLoading

UserMessage == Message("user", Trim(input), None)

\* the new turn's rate seeded from the previous turn's average
SubmitStreaming_KeepRate ==
    [content |-> <<>>, thinking |-> <<>>,
     tokensPerSecond |-> IF finalStats = None THEN 0 ELSE finalStats[1].avgTps,
     isStreaming |-> TRUE]

\* the streaming state handleSubmit sets before it opens the stream
SubmitStreaming ==
    [content |-> <<>>, thinking |-> <<>>, tokensPerSecond |-> 0, isStreaming |-> TRUE]

handleSubmit ==
    IF SubmitGuard
    THEN /\ lastSubmit' = "returned"
         /\ UNCHANGED <<messages, input, isLoading, streaming, finalStats,
                        historyLoad, sessions, lastClosed, turns, delivered,
                   strictMode>>
    ELSE /\ turns < MaxTurns
         /\ turns' = turns + 1
         /\ messages' = Append(messages, UserMessage)
         /\ input' = <<>>
         /\ isLoading' = TRUE
         /\ finalStats' = None
         /\ streaming' = SubmitStreaming
         /\ sessions' = Append(sessions, <<>>)
         /\ lastSubmit' = "accepted"
         /\ lastClosed' = None
         /\ UNCHANGED <<historyLoad, delivered, strictMode>>

----------------------------------------------------------------------------
(* handleStreamEvent: one iteration of the for-await loop. *)

\* the reasoning fragment appended to the answer text
ApplyThinking_IntoContent(prev, event) ==
    [prev EXCEPT !.content = prev.content \o OrStr(event.content, <<>>)]

ApplyThinking(prev, event) ==
    [prev EXCEPT !.thinking = prev.thinking \o OrStr(event.content, <<>>)]

\* the rate taken from the event whenever it carries one, zero included
ApplyToken_Nullish(prev, event) ==
    [prev EXCEPT !.content = prev.content \o OrStr(event.content, <<>>),
                 !.tokensPerSecond = IF event.tokens_per_second = None
                                     THEN prev.tokensPerSecond
                                     ELSE event.tokens_per_second[1]]

\* the fragment put in front of the text instead of after it
ApplyToken_Prepend(prev, event) ==
    [prev EXCEPT !.content = OrStr(event.content, <<>>) \o prev.content,
                 !.tokensPerSecond = OrNum(event.tokens_per_second, prev.tokensPerSecond)]

\* the rate reset when the event carries none
ApplyToken_ResetRate(prev, event) ==
    [prev EXCEPT !.content = prev.content \o OrStr(event.content, <<>>),
                 !.tokensPerSecond = OrNum(event.tokens_per_second, 0)]

ApplyToken(prev, event) ==
    [prev EXCEPT !.content = prev.content \o OrStr(event.content, <<>>),
                 !.tokensPerSecond = OrNum(event.tokens_per_second, prev.tokensPerSecond)]

\* the error event only ending the stream, its text not shown
ApplyError_NoText(prev, event) == [prev EXCEPT !.isStreaming = FALSE]

ApplyError(prev, event) ==
    [prev EXCEPT !.content = Str_Error \o OrStr(event.message, Str_Unknown),
                 !.isStreaming = FALSE]

\* the average computed from the token count and the duration
StatsOfDone_Computed(event) ==
    [totalTokens |-> OrNum(event.total_tokens, 0),
     durationMs |-> OrNum(event.duration_ms, 0),
     avgTps |-> IF OrNum(event.duration_ms, 0) = 0 THEN 0
                ELSE (OrNum(event.total_tokens, 0) * 1000) \div OrNum(event.duration_ms, 0)]

\* the token count and the duration stored in each other's field
StatsOfDone_Swapped(event) ==
    [totalTokens |-> OrNum(event.duration_ms, 0),
     durationMs |-> OrNum(event.total_tokens, 0),
     avgTps |-> OrNum(event.avg_tps, 0)]

StatsOfDone(event) ==
    [totalTokens |-> OrNum(event.total_tokens, 0),
     durationMs |-> OrNum(event.duration_ms, 0),
     avgTps |-> OrNum(event.avg_tps, 0)]

\* the streaming state after the event's queued update
StreamingAfter(prev, event) ==
    CASE event.type = "thinking" -> ApplyThinking(prev, event)
      [] event.type = "token" -> ApplyToken(prev, event)
      [] event.type = "error" -> ApplyError(prev, event)
      [] OTHER -> prev

\* the token case falling through into the done case
StatsAfter_Fallthrough(prev, event) ==
    IF event.type \in {"token", "done"} THEN Some(StatsOfDone(event)) ELSE prev

\* the statistics after the event
StatsAfter(prev, event) ==
    IF event.type = "done" THEN Some(StatsOfDone(event)) ELSE prev

handleStreamEvent(i, event) ==
    /\ i \in DOMAIN sessions
    /\ delivered < MaxEvents
    /\ delivered' = delivered + 1
    /\ streaming' = StreamingAfter(streaming, event)
    /\ finalStats' = StatsAfter(finalStats, event)
    /\ sessions' = [sessions EXCEPT ![i] = Append(@, event)]
    /\ UNCHANGED <<messages, input, isLoading, historyLoad, lastSubmit, lastClosed,
                   turns, strictMode>>

----------------------------------------------------------------------------
(* The end of the loop: the catch block when the stream failed, then the   *)
(* finally block.                                                          *)

CatchUpdate(prev, error) ==
    [prev EXCEPT !.content =
                     Str_Error \o (IF error.isError THEN error.message ELSE Str_Unknown),
                 !.isStreaming = FALSE]

AssistantMessage(prev) == Message("assistant", prev.content, OrUndefined(prev.thinking))

\* a message appended when there is reasoning text and no answer text too
Finalized_AnyText(prev) ==
    IF prev.content # <<>> \/ prev.thinking # <<>> THEN Some(AssistantMessage(prev))
    ELSE None

\* the message appended whatever its content
Finalized_Always(prev) == Some(AssistantMessage(prev))

\* what the finally block's updater passes to setMessages: a message, or nothing
Finalized(prev) == IF prev.content # <<>> THEN Some(AssistantMessage(prev)) ELSE None

\* the updater only clearing the flag, the texts left in place
FinalStreaming_KeepsText == [streaming EXCEPT !.isStreaming = FALSE]

\* the streaming state the finally block's updater returns
FinalStreaming ==
    [content |-> <<>>, thinking |-> <<>>, tokensPerSecond |-> 0, isStreaming |-> FALSE]

\* the history after the finally block's updater has run: each call of the
\* updater queues its own setMessages append
FinallyMessages(prev) ==
    IF strictMode THEN (messages \o Finalized(prev)) \o Finalized(prev)
    ELSE messages \o Finalized(prev)

RemoveAt(s, i) == SubSeq(s, 1, i - 1) \o SubSeq(s, i + 1, Len(s))

\* the finally block without its setIsLoading(false)
Finally_StillLoading(i, prev, thrown) ==
    /\ messages' = FinallyMessages(prev)
    /\ streaming' = FinalStreaming
    /\ sessions' = RemoveAt(sessions, i)
    /\ lastClosed' = Some([thrown |-> thrown])
    /\ UNCHANGED <<input, isLoading, finalStats, historyLoad, lastSubmit, turns,
                   delivered, strictMode>>

Finally(i, prev, thrown) ==
    /\ messages' = FinallyMessages(prev)
    /\ streaming' = FinalStreaming
    /\ isLoading' = FALSE
    /\ sessions' = RemoveAt(sessions, i)
    /\ lastClosed' = Some([thrown |-> thrown])
    /\ UNCHANGED <<input, finalStats, historyLoad, lastSubmit, turns, delivered,
                   strictMode>>

\* the stream ends: the loop exits normally
StreamEnd(i) ==
    /\ i \in DOMAIN sessions
    /\ Finally(i, streaming, None)

\* the failure caught, the loading flag reset only on the normal path
StreamThrow_Stuck(i, error) ==
    /\ i \in DOMAIN sessions
    /\ messages' = FinallyMessages(CatchUpdate(streaming, error))
    /\ streaming' = FinalStreaming
    /\ sessions' = RemoveAt(sessions, i)
    /\ lastClosed' = Some([thrown |-> Some(error)])
    /\ UNCHANGED <<input, isLoading, finalStats, historyLoad, lastSubmit, turns,
                   delivered, strictMode>>

\* the stream fails: the loop throws
StreamThrow(i, error) ==
    /\ i \in DOMAIN sessions
    /\ Finally(i, CatchUpdate(streaming, error), Some(error))

----------------------------------------------------------------------------

Next ==
    \/ \E v \in Inputs : SetInput(v)
    \/ \E r \in HistoryResponses : LoadHistoryResolved(r)
    \/ LoadHistoryRejected
    \/ handleSubmit
    \/ \E i \in 1..MaxTurns : \E e \in Events : handleStreamEvent(i, e)
    \/ \E i \in 1..MaxTurns : StreamEnd(i)
    \/ \E i \in 1..MaxTurns : \E x \in Thrown : StreamThrow(i, x)

Spec == Init /\ [][Next]_vars

\* The stream of a running turn ends or fails, and the finally block then
\* runs: the closing of an open activation is not postponed for ever.
LiveSpec ==
    Spec /\ WF_vars(\E i \in 1..MaxTurns :
                        StreamEnd(i) \/ \E x \in Thrown : StreamThrow(i, x))

----------------------------------------------------------------------------
(* The done case over a range of numbers: turns whose stream is one done   *)
(* event carrying any token count, duration and average within the bounds. *)

MaxTokens == 2

MaxHalfSeconds == 2

MaxRate == 4

StatsEvents ==
    { Done(Some(t), Some(500 * h), Some(a)) :
          t \in 0..MaxTokens, h \in 0..MaxHalfSeconds, a \in 0..MaxRate }

StatsNext ==
    \/ \E v \in Inputs : SetInput(v)
    \/ handleSubmit
    \/ \E i \in 1..MaxTurns : \E e \in StatsEvents :
           i \in DOMAIN sessions /\ sessions[i] = <<>> /\ handleStreamEvent(i, e)
    \/ \E i \in 1..MaxTurns : StreamEnd(i)

StatsSpec == Init /\ [][StatsNext]_vars

----------------------------------------------------------------------------
(* What a step did, read from the two states of the step. *)

\* the step ran a finally block: an activation closed
Closes == Len(sessions') < Len(sessions)

\* the events the closing activation had been delivered
ClosedLog == sessions[CHOOSE i \in DOMAIN sessions : sessions' = RemoveAt(sessions, i)]

\* the closing activation's stream ended; it did not throw
EndedNormally == lastClosed'[1].thrown = None

\* the messages the step appended to the history
Added == SubSeq(messages', Len(messages) + 1, Len(messages'))

\* the step delivered an event to activation i
Delivers(i) ==
    /\ Len(sessions') = Len(sessions)
    /\ Len(sessions'[i]) = Len(sessions[i]) + 1

DeliveredEvent(i) == sessions'[i][Len(sessions'[i])]

\* the step is a call of handleSubmit
SubmitCall == lastSubmit' # lastSubmit \/ turns' # turns

Fragment(event) == IF event.content = None THEN <<>> ELSE event.content[1]

\* the fragments of the events of one type, concatenated in arrival order
RECURSIVE Cat(_, _)
Cat(log, type) ==
    IF log = <<>> THEN <<>>
    ELSE (IF Head(log).type = type THEN Fragment(Head(log)) ELSE <<>>)
             \o Cat(Tail(log), type)

IsTerminal(event) == event.type \in {"done", "error"}

HasTerminal(log) == \E k \in DOMAIN log : IsTerminal(log[k])

\* token and thinking events, then exactly one done
AnswerThenDone(log) ==
    /\ log # <<>>
    /\ log[Len(log)].type = "done"
    /\ \A k \in 1..(Len(log) - 1) : log[k].type \in {"token", "thinking"}

\* the events before the first error event
RECURSIVE BeforeError(_)
BeforeError(log) ==
    IF log = <<>> \/ Head(log).type = "error" THEN <<>>
    ELSE <<Head(log)>> \o BeforeError(Tail(log))

\* t occurs in s
Contains(s, t) ==
    \E k \in 0..(Len(s) - Len(t)) : SubSeq(s, k + 1, k + Len(t)) = t

\* the streaming state a log leads to from an empty turn
RECURSIVE Replay(_, _)
Replay(prev, log) ==
    IF log = <<>> THEN prev ELSE Replay(StreamingAfter(prev, Head(log)), Tail(log))

EmptyTurn ==
    [content |-> <<>>, thinking |-> <<>>, tokensPerSecond |-> 0, isStreaming |-> TRUE]

TokenA == Token(Some(<<"a">>), None)

TokenB2 == Token(Some(<<"b">>), Some(2))

Done2 == Done(Some(2), Some(1000), Some(2))

UserH == Message("user", <<"h">>, None)

----------------------------------------------------------------------------
(* C1 *)

----------------------------------------------------------------------------
(* C2 *)

\* C2: in every reachable state at most one activation of the for-await
\* loop is running: a submit issued while one runs opens no second stream.
C2_AtMostOneSession == Len(sessions) <= 1

\* a submit with text was issued while a stream was open, and returned
C2_Witness ==
    /\ Len(sessions) = 1
    /\ isLoading
    /\ Trim(input) # <<>>
    /\ lastSubmit = "returned"

----------------------------------------------------------------------------
(* C3 *)

----------------------------------------------------------------------------
(* C4 *)

\* C4 as stated: when a session fails (an error event, or the stream
\* throwing) after a non-empty answer text was accumulated, the assistant
\* message appended to history contains that answer text.
C4_PartialTextKept ==
    [][ Closes =>
            LET failed == ~EndedNormally \/ \E k \in DOMAIN ClosedLog : ClosedLog[k].type = "error"
                text == Cat(BeforeError(ClosedLog), "token")
            IN (failed /\ text # <<>>) =>
                   /\ messages' = messages \o Added
                   /\ Added # <<>>
                   /\ \A k \in DOMAIN Added :
                          /\ Added[k].role = "assistant"
                          /\ Contains(Added[k].content, text) ]_vars

----------------------------------------------------------------------------
(* C5 *)

----------------------------------------------------------------------------
(* C6 *)

\* C6 as stated: a session whose stream is a single done event still
\* appends one assistant message, with empty content.
C6_EmptyMessageAppended ==
    [][ (Closes /\ EndedNormally /\ Len(ClosedLog) = 1 /\ ClosedLog[1].type = "done")
            => messages' = Append(messages, Message("assistant", <<>>, None)) ]_vars

\* C6 amended: a session whose stream is a single done event appends no
\* assistant message: the finalization leaves the history as it is.
C6_NoEmptyMessage ==
    [][ (Closes /\ EndedNormally /\ Len(ClosedLog) = 1 /\ ClosedLog[1].type = "done")
            => messages' = messages ]_vars

\* the turn done is over: the statistics are set, the history holds the
\* user message alone
C6_Witness ==
    /\ turns = 1
    /\ delivered = 1
    /\ lastClosed = Some([thrown |-> None])
    /\ finalStats # None
    /\ ~isLoading
    /\ messages = <<UserH>>

----------------------------------------------------------------------------
(* C7 *)

\* C7 as stated: once a done or error event has been processed in a
\* session, an event delivered afterwards changes neither the answer text,
\* the reasoning text, the rate, the statistics nor the history.
C7_IgnoredAfterTerminal ==
    [][ \A i \in DOMAIN sessions :
            (Delivers(i) /\ HasTerminal(sessions[i])) =>
                UNCHANGED <<streaming, finalStats, messages>> ]_vars

----------------------------------------------------------------------------
(* C8 *)

\* C8: an accepted submit opens its session on an empty turn (answer text
\* and reasoning text empty, rate 0) whatever the previous session left,
\* and from then on the accumulated turn is what the session's own events
\* build from an empty turn: no text of an earlier turn is in it.
C8_FreshTurn ==
    \A i \in DOMAIN sessions :
        /\ sessions[i] = <<>> =>
               /\ streaming.content = <<>>
               /\ streaming.thinking = <<>>
               /\ streaming.tokensPerSecond = 0
        /\ streaming = Replay(EmptyTurn, sessions[i])

\* the second turn opens after a first one that ended with an answer and
\* statistics
C8_Witness ==
    /\ turns = 2
    /\ sessions = << <<>> >>
    /\ streaming = EmptyTurn
    /\ \E k \in DOMAIN messages :
           messages[k].role = "assistant" /\ messages[k].content = <<"a">>

----------------------------------------------------------------------------
(* C9 *)

\* C9: a token event that carries no rate leaves the rate unchanged; after
\* token(b, rate 2), token(a) as the first events of a turn the rate is 2.
C9_RateRetained ==
    [][ \A i \in DOMAIN sessions :
            (Delivers(i) /\ DeliveredEvent(i).type = "token"
                         /\ DeliveredEvent(i).tokens_per_second = None) =>
                /\ streaming'.tokensPerSecond = streaming.tokensPerSecond
                /\ (Len(sessions[i]) = 1 /\ sessions[i][1].type = "token"
                        /\ sessions[i][1].tokens_per_second # None) =>
                       streaming'.tokensPerSecond = sessions[i][1].tokens_per_second[1]
      ]_vars

\* token(b, rate 2) then token(a) without a rate: the rate is still 2
C9_Witness ==
    /\ sessions = << <<TokenB2, TokenA>> >>
    /\ streaming.tokensPerSecond = 2

----------------------------------------------------------------------------
(* C10 *)

\* C10 as stated: after a token event that carries a rate, the rate of the
\* partial state is the rate the event carried, zero included.
C10_RateReplaced ==
    \A i \in DOMAIN sessions :
        LET log == sessions[i]
        IN (log # <<>> /\ log[Len(log)].type = "token"
                       /\ log[Len(log)].tokens_per_second # None) =>
               streaming.tokensPerSecond = log[Len(log)].tokens_per_second[1]

----------------------------------------------------------------------------
(* C11 *)

\* s is a prefix of t
IsPrefix(s, t) == Len(s) <= Len(t) /\ SubSeq(t, 1, Len(s)) = s

\* C11 as stated: within a turn the answer text and the reasoning text
\* only grow: after any event is processed, the previous answer text is a
\* prefix of the new one and the previous reasoning text is a prefix of the
\* new one.
C11_TextOnlyGrows ==
    [][ \A i \in DOMAIN sessions :
            Delivers(i) =>
                /\ IsPrefix(streaming.content, streaming'.content)
                /\ IsPrefix(streaming.thinking, streaming'.thinking) ]_vars

----------------------------------------------------------------------------
(* C12 *)

\* C12 as stated: the history is append-only: across every step, the
\* settling of the initial history load included, the history before the
\* step is a prefix of the history after it.
C12_HistoryAppendOnly == [][ IsPrefix(messages, messages') ]_vars

----------------------------------------------------------------------------
(* C13 *)

\* the last done event of a log
LastDone(log) ==
    log[CHOOSE k \in DOMAIN log :
            /\ log[k].type = "done"
            /\ \A j \in (k + 1)..Len(log) : log[j].type # "done"]

\* the three values a done event carries
Carried(event) ==
    [totalTokens |-> event.total_tokens[1],
     durationMs |-> event.duration_ms[1],
     avgTps |-> event.avg_tps[1]]

\* C13: once the running turn has processed a done event, the statistics
\* shown are exactly the total token count, the duration and the average
\* rate that done event carried.
C13_StatsOfDone ==
    \A i \in DOMAIN sessions :
        (\E k \in DOMAIN sessions[i] : sessions[i][k].type = "done") =>
            finalStats = Some(Carried(LastDone(sessions[i])))

C13_Witness ==
    /\ sessions = << <<TokenA, TokenB2, Done2>> >>
    /\ finalStats = Some([totalTokens |-> 2, durationMs |-> 1000, avgTps |-> 2])
    /\ isLoading

----------------------------------------------------------------------------
(* C14 *)

\* C14 as stated: the statistics become set only by a done event of the
\* running turn, an accepted submit clears them, and when a turn ends by
\* an error event or by a failure of the stream the statistics are absent.
C14_StatsOnlyAfterDone ==
    [][ /\ (finalStats = None /\ finalStats' # None) =>
               \E i \in DOMAIN sessions :
                   Delivers(i) /\ DeliveredEvent(i).type = "done"
        /\ turns' # turns => finalStats' = None
        /\ (Closes /\ (~EndedNormally
                         \/ \E k \in DOMAIN ClosedLog : ClosedLog[k].type = "error")) =>
               finalStats' = None ]_vars

----------------------------------------------------------------------------
(* C15 *)

\* C15 as stated: while a turn is running, the streaming flag is true as
\* long as no done or error event has been processed, and it is false in
\* the state right after a done or an error event has been processed.
C15_ActiveUntilTerminal ==
    \A i \in DOMAIN sessions :
        LET log == sessions[i] IN
            /\ ~HasTerminal(log) => streaming.isStreaming
            /\ (log # <<>> /\ IsTerminal(log[Len(log)])) => ~streaming.isStreaming

----------------------------------------------------------------------------
(* C16 *)

\* C16 as stated: an accepted submit appends the user message to the
\* history in the same step, before any event of the turn is processed, and
\* when a turn's end appends an assistant message, the message right before
\* it is the turn's user message.
C16_AssistantFollowsUser ==
    [][ /\ turns' # turns =>
               /\ messages' = Append(messages, Message("user", Trim(input), None))
               /\ sessions'[Len(sessions')] = <<>>
        /\ (Closes /\ Added # <<>>) =>
               /\ \A k \in DOMAIN Added : Added[k].role = "assistant"
               /\ messages # <<>>
               /\ messages[Len(messages)] = UserH ]_vars

----------------------------------------------------------------------------
(* C17 *)

\* C17: processing an event while the turn is streaming never changes the
\* history, and processing a thinking or a token event changes nothing but
\* the streaming state: the statistics, the loading flag, the input and the
\* history load are left as they were.
C17_OnlyPartialState ==
    [][ \A i \in DOMAIN sessions :
            Delivers(i) =>
                /\ messages' = messages
                /\ DeliveredEvent(i).type \in {"thinking", "token"} =>
                       UNCHANGED <<finalStats, isLoading, input, historyLoad>> ]_vars

C17_Witness ==
    /\ sessions = << <<Thinking(Some(<<"t">>)), TokenA>> >>
    /\ streaming.thinking = <<"t">>
    /\ streaming.content = <<"a">>
    /\ finalStats = None
    /\ messages = <<UserH>>

----------------------------------------------------------------------------
(* C18 *)

\* C18: after the stream of a turn has failed, before its first event or
\* later, the activation is closed, the streaming flag and the loading flag
\* are false, and a submit of a non-blank input is accepted.
C18_FailureAbsorbed ==
    (lastClosed # None /\ lastClosed[1].thrown # None) =>
        /\ sessions = <<>>
        /\ ~streaming.isStreaming
        /\ ~isLoading
        /\ Trim(input) # <<>> => ~SubmitGuard

C18_Witness ==
    /\ lastClosed # None
    /\ lastClosed[1].thrown # None
    /\ turns = 1
    /\ delivered = 1
    /\ Trim(input) # <<>>
    /\ ~SubmitGuard

----------------------------------------------------------------------------
(* C19 *)

\* C19: provided the stream of a running turn ends or fails, every state
\* in which a turn is running (after an accepted submit, and so after a
\* done or an error event too) is followed by a state in which no turn is
\* running, the streaming flag and the loading flag are false, and submit
\* is open again.
C19_EventuallyIdle ==
    (isLoading \/ sessions # <<>>) ~>
        (sessions = <<>> /\ ~isLoading /\ ~streaming.isStreaming)

C19_Witness ==
    /\ turns = 1
    /\ finalStats # None
    /\ lastClosed = Some([thrown |-> None])
    /\ sessions = <<>>
    /\ ~isLoading
    /\ \E k \in DOMAIN messages : messages[k].role = "assistant"
    /\ ~SubmitGuard

----------------------------------------------------------------------------
(* C20 *)

\* C20: whenever no turn is running, the streaming state is empty: no
\* answer text, no reasoning text, rate zero and flag false; and the
\* streaming flag is true only while a turn is running.
C20_NoTurnWhenIdle ==
    /\ sessions = <<>> =>
           streaming = [content |-> <<>>, thinking |-> <<>>,
                        tokensPerSecond |-> 0, isStreaming |-> FALSE]
    /\ streaming.isStreaming => sessions # <<>>

C20_Witness ==
    /\ sessions = <<>>
    /\ streaming.content = <<>>
    /\ lastClosed # None
    /\ \E k \in DOMAIN messages :
           messages[k].role = "assistant" /\ messages[k].thinking # None

----------------------------------------------------------------------------
(* C27 *)

\* C27 as stated: an accepted submit appends exactly one user message, and
\* the end of a turn appends at most one assistant message and nothing
\* else: the finally block's history append takes effect once.
C27_AppendsOnce ==
    [][ /\ turns' # turns => (messages' = messages \o Added /\ Len(Added) = 1
                               /\ Added[1].role = "user")
        /\ Closes => /\ messages' = messages \o Added
                     /\ Len(Added) <= 1
                     /\ \A k \in DOMAIN Added : Added[k].role = "assistant" ]_vars

----------------------------------------------------------------------------
(* C23 *)

\* C23 as stated: after a done event the average rate shown equals
\* total_tokens / (duration_ms / 1000), and 0 when duration_ms is 0.
C23_AverageIsComputed ==
    \A i \in DOMAIN sessions :
        sessions[i] # <<>> =>
            LET t == sessions[i][1].total_tokens[1]
                d == sessions[i][1].duration_ms[1]
            IN /\ finalStats # None
               /\ IF d = 0 THEN finalStats[1].avgTps = 0
                  ELSE finalStats[1].avgTps * d = t * 1000

\* C23 amended: after a done event the average rate shown is the average
\* the done event carries, whatever its token count and duration.
C23_AverageAsCarried ==
    \A i \in DOMAIN sessions :
        sessions[i] # <<>> =>
            /\ finalStats # None
            /\ finalStats[1].avgTps = sessions[i][1].avg_tps[1]

\* a done event whose average is not its token count over its duration
C23_Witness ==
    /\ sessions = << <<Done(Some(2), Some(1000), Some(1))>> >>
    /\ finalStats = Some([totalTokens |-> 2, durationMs |-> 1000, avgTps |-> 1])

----------------------------------------------------------------------------
(* C24 *)

\* C24: while a turn runs, once a token event has carried a non-zero rate
\* the rate shown is non-zero, whatever events came after it: no event
\* resets the rate to zero before the turn is finalized.
C24_RateNeverReset ==
    \A i \in DOMAIN sessions :
        (\E k \in DOMAIN sessions[i] :
             /\ sessions[i][k].type = "token"
             /\ sessions[i][k].tokens_per_second # None
             /\ sessions[i][k].tokens_per_second[1] # 0) =>
            streaming.tokensPerSecond # 0

\* a rate of 2, then a token event carrying rate 0, then an error event
C24_Witness ==
    /\ sessions = << <<TokenB2, Token(None, Some(0)), ErrorEvent(None)>> >>
    /\ streaming.tokensPerSecond = 2

----------------------------------------------------------------------------
(* C25 *)

\* C25: a thinking event leaves the answer text and the rate unchanged, a
\* token event leaves the reasoning text unchanged, and a done event leaves
\* the answer text, the reasoning text and the rate unchanged.
C25_OwnFieldsOnly ==
    [][ \A i \in DOMAIN sessions :
            Delivers(i) =>
                LET type == DeliveredEvent(i).type IN
                    /\ type = "thinking" =>
                           /\ streaming'.content = streaming.content
                           /\ streaming'.tokensPerSecond = streaming.tokensPerSecond
                    /\ type = "token" => streaming'.thinking = streaming.thinking
                    /\ type = "done" =>
                           /\ streaming'.content = streaming.content
                           /\ streaming'.thinking = streaming.thinking
                           /\ streaming'.tokensPerSecond = streaming.tokensPerSecond ]_vars

C25_Witness ==
    /\ sessions = << <<TokenB2, Thinking(Some(<<"t">>)), Done2>> >>
    /\ streaming = [content |-> <<"b">>, thinking |-> <<"t">>,
                    tokensPerSecond |-> 2, isStreaming |-> TRUE]

----------------------------------------------------------------------------
(* C26 *)

\* the messages a failure is tried with: none and "x"
FailureMessages == { <<>>, <<"x">> }

\* C26 as stated: from any state of a running turn, the stream failing
\* with message m and the stream delivering error(m) and then ending give
\* the same appended message and the same statistics (the final streaming
\* state is the reset one either way).
C26_FailureLikeErrorEvent ==
    \A i \in DOMAIN sessions : \A m \in FailureMessages :
        LET failed == CatchUpdate(streaming, [isError |-> TRUE, message |-> m])
            byEvent == StreamingAfter(streaming, ErrorEvent(Some(m)))
        IN /\ Finalized(failed) = Finalized(byEvent)
           /\ StatsAfter(finalStats, ErrorEvent(Some(m))) = finalStats

----------------------------------------------------------------------------
(* C28 *)

\* the text after "Error: " for a turn that ended by a failure
FailureText(log, thrown) ==
    IF thrown # None
    THEN (IF thrown[1].isError THEN thrown[1].message ELSE Str_Unknown)
    ELSE (IF log[Len(log)].message = None THEN Str_Unknown
          ELSE log[Len(log)].message[1])

\* C28 as stated: a turn that ends by a failure of the stream, or whose
\* last event is an error event, appends exactly one assistant message,
\* whose content is "Error: " followed by the failure's message ("Unknown
\* error" when there is none), whatever was received before.
C28_OneErrorMessage ==
    [][ (Closes /\ (~EndedNormally
                      \/ (ClosedLog # <<>> /\ ClosedLog[Len(ClosedLog)].type = "error"))) =>
            /\ messages' = messages \o Added
            /\ Len(Added) = 1
            /\ Added[1].role = "assistant"
            /\ Added[1].content =
                   Str_Error \o FailureText(ClosedLog, lastClosed'[1].thrown) ]_vars

----------------------------------------------------------------------------
(* C29 *)

\* C29: a turn that received only thinking and done events and then ended
\* appends no message and its reasoning text is dropped; and a message
\* appended at the end of any turn has a reasoning field only if the
\* accumulated reasoning text was not empty, and then it is that text.
C29_ReasoningAlone ==
    [][ Closes =>
            /\ (EndedNormally
                  /\ \A k \in DOMAIN ClosedLog : ClosedLog[k].type \in {"thinking", "done"}) =>
                   (messages' = messages /\ streaming'.thinking = <<>>)
            /\ \A k \in DOMAIN Added :
                   Added[k].thinking # None =>
                       (streaming.thinking # <<>>
                          /\ Added[k].thinking = Some(streaming.thinking)) ]_vars

\* reasoning text and no answer text, the stream about to end
C29_Witness ==
    /\ sessions = << <<Thinking(Some(<<"t">>)), Done2>> >>
    /\ streaming.thinking = <<"t">>
    /\ streaming.content = <<>>
    /\ messages = <<UserH>>

----------------------------------------------------------------------------
(* C30 *)

\* s is empty or white space only
IsBlank(s) == \A k \in DOMAIN s : s[k] = " "

\* s from its first to its last character that is not white space
Strip(s) ==
    LET inked == { k \in DOMAIN s : s[k] # " " } IN
        IF inked = {} THEN <<>>
        ELSE SubSeq(s, CHOOSE k \in inked : \A j \in inked : k <= j,
                       CHOOSE k \in inked : \A j \in inked : k >= j)

\* C30: a call of handleSubmit with an empty or white-space-only input
\* changes neither the history, the streaming state, the statistics, the
\* loading flag nor the input and opens no stream; an accepted submit
\* appends the user message whose content is the input without its leading
\* and trailing white space.
C30_BlankIsNoOp ==
    [][ SubmitCall =>
            /\ IsBlank(input) =>
                   /\ turns' = turns
                   /\ UNCHANGED <<messages, streaming, finalStats, isLoading, sessions,
                                  input>>
            /\ turns' # turns =>
                   /\ ~IsBlank(input)
                   /\ messages' = Append(messages, Message("user", Strip(input), None)) ]_vars

\* a submit of " " returned, nothing started
C30_Witness ==
    /\ input = <<" ">>
    /\ lastSubmit = "returned"
    /\ turns = 0
    /\ messages = <<>>
    /\ ~isLoading

====
